---- MODULE Spec2Model ----
(***************************************************************************)
(* Badminton AI Manager: the booking store (main.py add_booking,           *)
(* scripts/seed_bookings.py), the two action tools and the tool-dispatch   *)
(* loop (main.py reasoner_node / tool_node / router / workflow), the       *)
(* pattern detector (main.py find_regular_absentees) and the seed script   *)
(* (scripts/seed_bookings.py main).                                        *)
(*                                                                         *)
(* Times are counted in ticks; DayTicks ticks make one calendar day, and a *)
(* datetime at 00:00 UTC of day d is the tick d * DayTicks.                *)
(***************************************************************************)
EXTENDS Integers, Sequences, FiniteSets, TLC

VARIABLES
    store,          \* the bookings collection, in natural (insertion) order
    lastOp,         \* the last write operation on the store and what it returned
    racers,         \* two uncoordinated callers of _upsert_records
    raceBase,       \* the store when the two callers started
    sid,            \* TWILIO_ACCOUNT_SID as read at process start
    token,          \* TWILIO_AUTH_TOKEN as read at process start
    providerCalls,  \* the calls made to the messaging provider, in order
    lastCall,       \* the last direct tool call and its return value
    pc,             \* the node of the graph that runs next
    messages,       \* AgentState["messages"]
    reasonerInput,  \* the history handed to the reasoning function last
    reasonCount,    \* REASON steps of this invocation
    actCount,       \* ACT steps of this invocation
    nextCallId,     \* the next fresh tool-call id
    invoked,        \* the tool invocations made, in order
    logged,         \* what run_daily_streak_check logged at its end
    detection,      \* the last call of find_regular_absentees and its result
    seedRun,        \* the last run of the seed script and what it did
    runs            \* the scheduled and the manually triggered invocation

vars == <<store, lastOp, racers, raceBase, sid, token, providerCalls,
          lastCall, pc, messages, reasonerInput, reasonCount,
          actCount, nextCallId, invoked, logged, detection, seedRun,
          runs>>

scriptVars == <<detection, seedRun, runs>>
storeVars == <<store, lastOp>>
raceVars  == <<racers, raceBase>>
toolVars  == <<sid, token, providerCalls, lastCall>>
agentVars == <<pc, messages, reasonerInput, reasonCount, actCount,
               nextCallId, invoked, logged>>

----------------------------------------------------------------------------
(* Bounds of the model *)

MaxStore == 2           \* records the collection may hold
MaxRaceBase == 1        \* records in the collection when a race starts
MaxPayload == 2         \* records of one seed payload
MaxProviderCalls == 2   \* provider calls of one run of the tool model
MaxToolCalls == 3       \* tool calls requested during one loop invocation
MaxCallsPerTurn == 2    \* tool calls of one reasoner message
TurnBound == 2          \* the turn bound the loop is claimed to respect

DayTicks == 2           \* clock ticks per calendar day

Players == {"p1", "p2"}
Nows == {2 * DayTicks, 2 * DayTicks + 1}   \* values of datetime.now(utc)
LookbackDays == {-1, 0, 1, 30}             \* lookback_days arguments
CredValues == {"unset", "empty", "set"}    \* an environment variable's states
Bodies == {"hi"}                           \* message_body arguments

UserName(p) == IF p = "p1" THEN "Sri" ELSE "Lara"
Phone(p) == IF p = "p1" THEN "whatsapp:+1" ELSE "whatsapp:+2"

----------------------------------------------------------------------------
(* Booking documents *)

StartOfDay(d) == d * DayTicks

Doc(p, d, c) ==
    [user_id |-> p, user_name |-> UserName(p), whatsapp_number |-> Phone(p),
     court_name |-> c, date |-> StartOfDay(d), is_regular_slot |-> TRUE]

\* The bookings the store model draws its inputs from: one key with two
\* contents, the same player on another day, and another player.
BookingInputs ==
    {<<"p1", 1, "Court A">>, <<"p1", 1, "Court B">>,
     <<"p1", 2, "Court A">>, <<"p2", 1, "Court A">>}

SeedDocs == {Doc(b[1], b[2], b[3]) : b \in BookingInputs}

SeqsUpTo(S, n) == UNION {[1..k -> S] : k \in 0..n}

SameKey(a, b) == a.user_id = b.user_id /\ a.date = b.date

----------------------------------------------------------------------------
(* The collection's operations *)

insert_one(st, doc) == Append(st, doc)

Matches(st, doc) == {i \in 1..Len(st) : SameKey(st[i], doc)}

FirstMatch(st, doc) ==
    CHOOSE i \in Matches(st, doc) : \A j \in Matches(st, doc) : i <= j

\* update_one reporting every matched document as modified
update_one_matched_count(st, doc) ==
    IF Matches(st, doc) = {}
    THEN [store |-> Append(st, doc), upserted |-> TRUE, modified_count |-> 0]
    ELSE [store |-> [st EXCEPT ![FirstMatch(st, doc)] = doc],
          upserted |-> FALSE, modified_count |-> 1]

\* update_one({"user_id", "date"}, {"$set": doc}, upsert=True): the first
\* document matching the key is set to doc; with no match doc is inserted.
update_one(st, doc) ==
    IF Matches(st, doc) = {}
    THEN [store |-> Append(st, doc), upserted |-> TRUE, modified_count |-> 0]
    ELSE LET i == FirstMatch(st, doc)
         IN  [store |-> [st EXCEPT ![i] = doc],
              upserted |-> FALSE,
              modified_count |-> IF st[i] = doc THEN 0 ELSE 1]

delete_many(st, user_ids) ==
    LET keep(d) == d.user_id \notin user_ids
    IN  [store |-> SelectSeq(st, keep),
         deleted_count |-> Len(st) - Len(SelectSeq(st, keep))]

RECURSIVE UpsertLoop(_, _, _)
UpsertLoop(st, records, inserted) ==
    IF records = <<>>
    THEN [store |-> st, inserted |-> inserted]
    ELSE LET result == update_one(st, Head(records))
         IN  UpsertLoop(result.store, Tail(records),
                        IF result.upserted \/ result.modified_count # 0
                        THEN inserted + 1 ELSE inserted)

_upsert_records(st, records) == UpsertLoop(st, records, 0)

_purge_users(st, user_ids) ==
    IF user_ids = {}
    THEN [store |-> st, deleted_count |-> 0]
    ELSE delete_many(st, user_ids)

----------------------------------------------------------------------------
(* Store actions *)

\* lastOp: the operation, its records, its return value, the store it ran on,
\* and whether it repeats the run before it (the same payload, again).
NoOp == [op |-> "none", payload |-> <<>>, ret |-> 0, before |-> <<>>,
         rerun |-> FALSE]

\* POST /bookings: the date is set to 00:00 UTC of the day, then insert_one
add_booking(p, d, c) ==
    /\ Len(store) < MaxStore
    /\ store' = insert_one(store, Doc(p, d, c))
    /\ lastOp' = [op |-> "add", payload |-> <<Doc(p, d, c)>>, ret |-> 0,
                  before |-> store, rerun |-> FALSE]

AddBooking ==
    /\ racers[1].pc = "idle" /\ racers[2].pc = "idle"
    /\ \E b \in BookingInputs : add_booking(b[1], b[2], b[3])
    /\ UNCHANGED <<scriptVars, raceVars, toolVars, agentVars>>

\* one sequential run of _upsert_records
SeedUpsert ==
    /\ \E payload \in SeqsUpTo(SeedDocs, MaxPayload) :
          LET r == _upsert_records(store, payload)
          IN  /\ Len(r.store) <= MaxStore
              /\ store' = r.store
              /\ lastOp' = [op |-> "upsert", payload |-> payload,
                            ret |-> r.inserted, before |-> store,
                            rerun |-> lastOp.op = "upsert"
                                      /\ lastOp.payload = payload]
    /\ UNCHANGED <<scriptVars, raceVars, toolVars, agentVars>>

SeedPurge ==
    /\ racers[1].pc = "idle" /\ racers[2].pc = "idle"
    /\ \E user_ids \in SUBSET Players :
          LET r == _purge_users(store, user_ids)
          IN  /\ store' = r.store
              /\ lastOp' = [op |-> "purge", payload |-> <<>>,
                            ret |-> r.deleted_count, before |-> store,
                            rerun |-> FALSE]
    /\ UNCHANGED <<scriptVars, raceVars, toolVars, agentVars>>

----------------------------------------------------------------------------
(* Initial values *)

IdleRacers == [c \in {1, 2} |-> [pc |-> "idle", doc |-> Doc("p1", 1, "Court A"),
                                 found |-> FALSE]]

NoCall == [tool |-> "none", lookback_days |-> 0, queried |-> FALSE,
           dispatched |-> FALSE, attempts |-> 0, raised |-> FALSE,
           ret |-> [head |-> "", text |-> <<>>, rows |-> <<>>]]

StoreInit == store = <<>> /\ lastOp = NoOp
RaceInit  == racers = IdleRacers /\ raceBase = <<>>
ToolInit  ==
    /\ sid = "set" /\ token = "set"
    /\ providerCalls = <<>> /\ lastCall = NoCall
AgentInit ==
    /\ pc = "idle" /\ messages = <<>> /\ reasonerInput = <<>>
    /\ reasonCount = 0 /\ actCount = 0 /\ nextCallId = 1
    /\ invoked = <<>> /\ logged = "nothing"

NoDetection == [called |-> FALSE, target_day |-> 0, lookback_weeks |-> 0,
                min_sessions |-> 0, outcome |-> "none", regulars |-> {},
                absentees |-> {}]

\* seedRun: whether the last run of the seed script had --dry-run and
\* whether it left the store other than it found it
NoSeedRun == [ran |-> FALSE, dry_run |-> FALSE, changed |-> FALSE]

\* an invocation of run_daily_streak_check that has not started
IdleRun == [pc |-> "idle", messages |-> <<>>, nextCallId |-> 1]

ScriptInit ==
    /\ detection = NoDetection /\ seedRun = NoSeedRun
    /\ runs = [r \in {1, 2} |-> IdleRun]

StoreModelInit ==
    StoreInit /\ RaceInit /\ ToolInit /\ AgentInit /\ ScriptInit
StoreNext == AddBooking \/ SeedUpsert \/ SeedPurge
StoreSpec == StoreModelInit /\ [][StoreNext]_vars

----------------------------------------------------------------------------
(* The action tools.  A tool's return value is a text: head is its fixed     *)
(* leading part, text the pieces that follow it, rows the lines of a CSV.    *)

ResultLimit == 200

Text(h, t) == [head |-> h, text |-> t, rows |-> <<>>]

NoBookingsFound == Text("No bookings found in database.", <<>>)
ErrorFetching(e) == Text("Error fetching data: ", <<e>>)
InvalidLookback == ErrorFetching("lookback_days must be a positive integer")

\* strftime("%Y-%m-%d") of a UTC datetime: its calendar day
DateString(t) == t \div DayTicks

\* pandas day_name() of a calendar day
DayName(d) ==
    <<"Monday", "Tuesday", "Wednesday", "Thursday", "Friday", "Saturday",
      "Sunday">>[(d % 7) + 1]

\* find({"date": {"$gte": cutoff}})
FindSince(st, cutoff) ==
    LET recent(doc) == doc.date >= cutoff
    IN  SelectSeq(st, recent)

\* sort("date", -1): latest first, equal dates in natural order
RECURSIVE SortByDateDesc(_)
SortByDateDesc(docs) ==
    IF docs = <<>>
    THEN <<>>
    ELSE LET i == CHOOSE k \in 1..Len(docs) :
                      /\ \A j \in 1..Len(docs) : docs[j].date <= docs[k].date
                      /\ \A j \in 1..(k - 1) : docs[j].date < docs[k].date
             rest == [j \in 1..(Len(docs) - 1) |->
                         IF j < i THEN docs[j] ELSE docs[j + 1]]
         IN  <<docs[i]>> \o SortByDateDesc(rest)

Limit(docs, n) == SubSeq(docs, 1, IF Len(docs) < n THEN Len(docs) ELSE n)

CsvRows(data) ==
    [i \in 1..Len(data) |->
        [user |-> data[i].user_name, phone |-> data[i].whatsapp_number,
         date |-> DateString(data[i].date),
         day |-> DayName(DateString(data[i].date))]]

\* get_booking_history whose argument check lets 0 through
get_booking_history_negative_only(lookback_days, now, st, up) ==
    IF lookback_days < 0
    THEN [ret |-> InvalidLookback, queried |-> FALSE, raised |-> FALSE]
    ELSE IF ~up
    THEN [ret |-> ErrorFetching("store unreachable"), queried |-> TRUE, raised |-> FALSE]
    ELSE LET cutoff == now - lookback_days * DayTicks
             data == Limit(SortByDateDesc(FindSince(st, cutoff)), ResultLimit)
         IN  IF data = <<>>
             THEN [ret |-> NoBookingsFound, queried |-> TRUE, raised |-> FALSE]
             ELSE [ret |-> [head |-> "user,phone,date,day", text |-> <<>>,
                            rows |-> CsvRows(data)],
                   queried |-> TRUE, raised |-> FALSE]

\* get_booking_history(lookback_days) at time now, on collection st that is
\* reachable (up) or not: the text returned, whether the store was queried,
\* and whether an exception left the function (its whole body is inside
\* try / except Exception)
get_booking_history(lookback_days, now, st, up) ==
    IF lookback_days <= 0
    THEN [ret |-> InvalidLookback, queried |-> FALSE, raised |-> FALSE]
    ELSE IF ~up
    THEN [ret |-> ErrorFetching("store unreachable"), queried |-> TRUE, raised |-> FALSE]
    ELSE LET cutoff == now - lookback_days * DayTicks
             data == Limit(SortByDateDesc(FindSince(st, cutoff)), ResultLimit)
         IN  IF data = <<>>
             THEN [ret |-> NoBookingsFound, queried |-> TRUE, raised |-> FALSE]
             ELSE [ret |-> [head |-> "user,phone,date,day", text |-> <<>>,
                            rows |-> CsvRows(data)],
                   queried |-> TRUE, raised |-> FALSE]

\* "not X" of an environment variable: unset (None) and "" are both falsy
Falsy(v) == v \in {"unset", "empty"}

\* send_whatsapp_reminder simulating only when both credentials are missing
send_whatsapp_reminder_both_missing(phone_number, message_body, accepted) ==
    IF Falsy(sid) /\ Falsy(token)
    THEN [ret |-> Text("SIMULATION: Message '",
                       <<message_body, "' sent to ", phone_number>>),
          dispatched |-> FALSE, attempts |-> 0, raised |-> FALSE]
    ELSE [ret |-> IF accepted
                  THEN Text("Message sent successfully. SID: ", <<"SM1">>)
                  ELSE Text("Failed to send message: ", <<"provider error">>),
          dispatched |-> TRUE, attempts |-> 1, raised |-> FALSE]

\* send_whatsapp_reminder refusing a number the provider was already called
\* for
send_whatsapp_reminder_once_per_number(phone_number, message_body, accepted) ==
    IF Falsy(sid) \/ Falsy(token)
    THEN [ret |-> Text("SIMULATION: Message '",
                       <<message_body, "' sent to ", phone_number>>),
          dispatched |-> FALSE, attempts |-> 0, raised |-> FALSE]
    ELSE IF \E i \in 1..Len(providerCalls) : providerCalls[i].to = phone_number
    THEN [ret |-> Text("Already sent to ", <<phone_number>>),
          dispatched |-> FALSE, attempts |-> 0, raised |-> FALSE]
    ELSE [ret |-> IF accepted
                  THEN Text("Message sent successfully. SID: ", <<"SM1">>)
                  ELSE Text("Failed to send message: ", <<"provider error">>),
          dispatched |-> TRUE, attempts |-> 1, raised |-> FALSE]

\* send_whatsapp_reminder without the try around the provider call: an error
\* of the provider leaves the function as an exception
send_whatsapp_reminder_no_try(phone_number, message_body, accepted) ==
    IF Falsy(sid) \/ Falsy(token)
    THEN [ret |-> Text("SIMULATION: Message '",
                       <<message_body, "' sent to ", phone_number>>),
          dispatched |-> FALSE, attempts |-> 0, raised |-> FALSE]
    ELSE [ret |-> IF accepted
                  THEN Text("Message sent successfully. SID: ", <<"SM1">>)
                  ELSE Text("", <<>>),
          dispatched |-> TRUE, attempts |-> 1, raised |-> ~accepted]

\* send_whatsapp_reminder(phone_number, message_body) when the provider
\* accepts the message or not: the text returned, whether
\* client.messages.create was called and how many times, and whether an
\* exception left the function (the provider call is inside try / except)
send_whatsapp_reminder(phone_number, message_body, accepted) ==
    IF Falsy(sid) \/ Falsy(token)
    THEN [ret |-> Text("SIMULATION: Message '",
                       <<message_body, "' sent to ", phone_number>>),
          dispatched |-> FALSE, attempts |-> 0, raised |-> FALSE]
    ELSE [ret |-> IF accepted
                  THEN Text("Message sent successfully. SID: ", <<"SM1">>)
                  ELSE Text("Failed to send message: ", <<"provider error">>),
          dispatched |-> TRUE, attempts |-> 1, raised |-> FALSE]

----------------------------------------------------------------------------
(* The tools called directly *)

\* the collections the tool model starts from
ToolStores ==
    {<<>>, <<Doc("p1", 1, "Court A")>>,
     <<Doc("p1", 1, "Court A"), Doc("p2", 2, "Court B")>>}

ToolModelInit ==
    /\ store \in ToolStores /\ lastOp = NoOp
    /\ RaceInit
    /\ sid \in CredValues /\ token \in CredValues
    /\ providerCalls = <<>> /\ lastCall = NoCall
    /\ AgentInit /\ ScriptInit

CallGetBookingHistory ==
    /\ \E lookback_days \in LookbackDays, now \in Nows, up \in BOOLEAN :
          LET r == get_booking_history(lookback_days, now, store, up)
          IN  lastCall' = [tool |-> "get_booking_history",
                           lookback_days |-> lookback_days,
                           queried |-> r.queried, dispatched |-> FALSE,
                           attempts |-> 0, raised |-> r.raised,
                           ret |-> r.ret]
    /\ UNCHANGED <<scriptVars, storeVars, raceVars, sid, token, providerCalls, agentVars>>

CallSendWhatsappReminder ==
    /\ Len(providerCalls) < MaxProviderCalls
    /\ \E p \in Players, body \in Bodies, accepted \in BOOLEAN :
          LET r == send_whatsapp_reminder(Phone(p), body, accepted)
          IN  /\ lastCall' = [tool |-> "send_whatsapp_reminder",
                              lookback_days |-> 0, queried |-> FALSE,
                              dispatched |-> r.dispatched,
                              attempts |-> r.attempts, raised |-> r.raised,
                              ret |-> r.ret]
              /\ providerCalls' =
                    providerCalls \o [i \in 1..r.attempts |->
                                         [to |-> Phone(p), body |-> body]]
    /\ UNCHANGED <<scriptVars, storeVars, raceVars, sid, token, agentVars>>

ToolNext == CallGetBookingHistory \/ CallSendWhatsappReminder
ToolSpec == ToolModelInit /\ [][ToolNext]_vars

----------------------------------------------------------------------------
(* Claims about the action tools *)

\* C9: get_booking_history with lookback_days <= 0 returns the
\* invalid-argument failure, which is not the "no data" text of an empty
\* range, and does not query the store, whatever the store holds and whether
\* or not it is reachable.
C9_InvalidLookbackFailsWithoutQuery ==
    (lastCall.tool = "get_booking_history" /\ lastCall.lookback_days <= 0)
    => /\ lastCall.ret = InvalidLookback
       /\ lastCall.ret.head = "Error fetching data: "
       /\ lastCall.ret # NoBookingsFound
       /\ ~lastCall.queried

\* lookback_days = 0 was passed on a store that holds bookings
C9_Witness ==
    /\ lastCall.tool = "get_booking_history" /\ lastCall.lookback_days = 0
    /\ store # <<>> /\ lastCall.ret = InvalidLookback

\* C10: with TWILIO_ACCOUNT_SID or TWILIO_AUTH_TOKEN not configured, every
\* send_whatsapp_reminder call returns the text marked SIMULATION and calls
\* the provider not at all; the provider is called only with both configured.
C10_NoCredentialsMeansSimulation ==
    /\ (lastCall.tool = "send_whatsapp_reminder"
          /\ (Falsy(sid) \/ Falsy(token)))
       => (lastCall.ret.head = "SIMULATION: Message '" /\ ~lastCall.dispatched)
    /\ (providerCalls # <<>> \/ lastCall.dispatched)
       => (~Falsy(sid) /\ ~Falsy(token))

\* a reminder was asked for with the account SID set and the token missing
C10_Witness ==
    /\ lastCall.tool = "send_whatsapp_reminder"
    /\ sid = "set" /\ token = "unset"
    /\ lastCall.ret.head = "SIMULATION: Message '"

----------------------------------------------------------------------------
(* Two callers racing to upsert one key.  No unique index on                *)
(* (user_id, date) is created anywhere, so the server evaluates the filter  *)
(* of an upsert and inserts on a miss as two steps that another caller's    *)
(* upsert may come between; the update of a matched document is atomic.     *)

RacePairs == {pr \in SeedDocs \X SeedDocs : SameKey(pr[1], pr[2])}

RaceStart ==
    /\ racers[1].pc = "idle" /\ racers[2].pc = "idle"
    /\ Len(store) <= MaxRaceBase
    /\ \E pr \in RacePairs :
          racers' = [c \in {1, 2} |->
                        [pc |-> "match", doc |-> pr[c], found |-> FALSE]]
    /\ raceBase' = store
    /\ UNCHANGED <<scriptVars, storeVars, toolVars, agentVars>>

\* the filter of update_one is evaluated
RaceMatch(c) ==
    /\ racers[c].pc = "match"
    /\ racers' = [racers EXCEPT ![c].pc = "write",
                                ![c].found = Matches(store, racers[c].doc) # {}]
    /\ UNCHANGED <<scriptVars, storeVars, raceBase, toolVars, agentVars>>

\* the write of update_one: $set on the matched document, insert on a miss
RaceWrite(c) ==
    /\ racers[c].pc = "write"
    /\ store' = IF racers[c].found
                THEN update_one(store, racers[c].doc).store
                ELSE insert_one(store, racers[c].doc)
    /\ racers' = [racers EXCEPT ![c].pc = "done"]
    /\ UNCHANGED <<scriptVars, lastOp, raceBase, toolVars, agentVars>>

RaceEnd ==
    /\ racers[1].pc = "done" /\ racers[2].pc = "done"
    /\ racers' = IdleRacers
    /\ UNCHANGED <<scriptVars, storeVars, raceBase, toolVars, agentVars>>

RaceStep == \E c \in {1, 2} : RaceMatch(c) \/ RaceWrite(c)

RaceNext == AddBooking \/ SeedPurge \/ RaceStart \/ RaceStep \/ RaceEnd
RaceSpec == StoreModelInit /\ [][RaceNext]_vars

----------------------------------------------------------------------------
(* Claims about the booking store *)

\* C6: in every reachable state of the store there is at most one record
\* per (user_id, date) pair.
C6_AtMostOneRecordPerKey ==
    \A i, j \in 1..Len(store) : SameKey(store[i], store[j]) => i = j

ConflictFree(payload) ==
    \A i, j \in 1..Len(payload) :
        SameKey(payload[i], payload[j]) => payload[i] = payload[j]

\* C7 as stated, its conclusion: a second run of _upsert_records on the same
\* payload returns 0 and leaves the store as the first run left it.
C7_SecondRunWritesNothing_AsStated ==
    (lastOp.op = "upsert" /\ lastOp.rerun)
    => (store = lastOp.before /\ lastOp.ret = 0)

\* C7 as amended: an upsert of a booking equal to the stored record its
\* filter matches (the first record with its key) changes nothing and reports
\* no write; a second run on the same payload leaves the store as the first
\* run left it, and returns 0 when no two records of the payload share a key
\* with different content.
C7_UpsertIdempotent ==
    /\ (lastOp.op = "upsert" /\ Len(lastOp.payload) = 1
          /\ Matches(lastOp.before, lastOp.payload[1]) # {}
          /\ lastOp.before[FirstMatch(lastOp.before, lastOp.payload[1])]
                = lastOp.payload[1])
       => (store = lastOp.before /\ lastOp.ret = 0)
    /\ (lastOp.op = "upsert" /\ lastOp.rerun)
       => /\ store = lastOp.before
          /\ ConflictFree(lastOp.payload) => lastOp.ret = 0

\* a second run of a two-record payload that wrote nothing
C7_Witness ==
    /\ lastOp.op = "upsert" /\ lastOp.rerun
    /\ Len(lastOp.payload) = 2 /\ lastOp.payload[1] # lastOp.payload[2]
    /\ lastOp.ret = 0 /\ store = lastOp.before

BothDone == racers[1].pc = "done" /\ racers[2].pc = "done"

SequentialOutcomes ==
    LET a == racers[1].doc
        b == racers[2].doc
    IN  {update_one(update_one(raceBase, a).store, b).store,
         update_one(update_one(raceBase, b).store, a).store}

\* C8: when both racing upserts of one key have finished, the store holds
\* exactly one record for the key and equals the result of running the two
\* upserts one after the other.
C8_RaceConverges ==
    BothDone =>
        /\ Cardinality(Matches(store, racers[1].doc)) = 1
        /\ store \in SequentialOutcomes

----------------------------------------------------------------------------
(* The tool-dispatch loop: the graph reasoner -> (tools | END),             *)
(* tools -> reasoner, run once by run_daily_streak_check.  The graph is     *)
(* compiled and invoked without any limit on its steps being configured.    *)

\* a registry that also holds the name the reasoner may make up
tool_map_with_unknown ==
    {"get_booking_history", "send_whatsapp_reminder", "unknown_tool"}

\* tool_map: the two tools by name
tool_map == {"get_booking_history", "send_whatsapp_reminder"}

NoArgs == [valid |-> FALSE, lookback_days |-> 0, phone_number |-> "",
           message_body |-> ""]

\* what the reasoning function may ask for: a tool name with arguments that
\* fit the tool's schema (valid) or not, or a name that is no tool
Requests ==
    {[name |-> "get_booking_history",
      args |-> [NoArgs EXCEPT !.valid = TRUE, !.lookback_days = d]] :
        d \in {0, 30}}
    \cup {[name |-> "send_whatsapp_reminder",
           args |-> [NoArgs EXCEPT !.valid = TRUE,
                                   !.phone_number = Phone("p1"),
                                   !.message_body = "hi"]]}
    \cup {[name |-> n, args |-> NoArgs] :
            n \in tool_map \cup {"unknown_tool"}}

HumanMessage == [type |-> "human", content |-> Text("prompt", <<>>),
                 tool_calls |-> <<>>, tool_call_id |-> 0, name |-> ""]

AIMessage(calls) == [type |-> "ai", content |-> Text("answer", <<>>),
                     tool_calls |-> calls, tool_call_id |-> 0, name |-> ""]

\* a tool message that does not carry the id of the call it answers
ToolMessageUntagged(id, n, c) ==
    [type |-> "tool", content |-> c, tool_calls |-> <<>>, tool_call_id |-> 0,
     name |-> n]

ToolMessage(id, n, c) == [type |-> "tool", content |-> c, tool_calls |-> <<>>,
                          tool_call_id |-> id, name |-> n]

Last(seq) == seq[Len(seq)]

\* a reducer that replaces the history by the update
add_messages_overwrite(left, right) == right

\* the reducer of AgentState.messages: the update is appended
add_messages(left, right) == left \o right

\* a router that tests for the attribute instead of its content
router_attribute_present(msgs) ==
    IF Last(msgs).type = "ai" THEN "tools" ELSE "END"

\* a router with its two answers exchanged
router_inverted(msgs) ==
    IF Last(msgs).tool_calls # <<>> THEN "END" ELSE "tools"

\* router: "tools" when the last message carries tool calls, else END
router(msgs) ==
    IF Last(msgs).tool_calls # <<>> THEN "tools" ELSE "END"

\* an edge that ends the run after the tools
AfterToolsEnd == "END"

\* workflow.add_edge("tools", "reasoner")
AfterTools == "reasoner"

\* tool_map[name].invoke(args): arguments that do not fit the schema raise
\* before the tool runs; otherwise the tool's text is returned
Invoke(t, ok, now) ==
    IF ~t.args.valid
    THEN [raised |-> TRUE, ret |-> Text("validation error", <<>>),
          dispatched |-> FALSE]
    ELSE IF t.name = "get_booking_history"
    THEN LET r == get_booking_history(t.args.lookback_days, now, store, ok)
         IN  [raised |-> r.raised, ret |-> r.ret, dispatched |-> FALSE]
    ELSE LET r == send_whatsapp_reminder(t.args.phone_number,
                                         t.args.message_body, ok)
         IN  [raised |-> r.raised, ret |-> r.ret, dispatched |-> r.dispatched]

\* tool_node with the invocation outside any try: the first raising call
\* ends the node with the exception
RECURSIVE ToolLoopNoTry(_, _, _, _)
ToolLoopNoTry(calls, env, now, acc) ==
    IF calls = <<>>
    THEN acc
    ELSE LET t == Head(calls)
             r == Invoke(t, Head(env), now)
         IN  IF t.name \notin tool_map
             THEN ToolLoopNoTry(Tail(calls), Tail(env), now, acc)
             ELSE IF r.raised
             THEN [acc EXCEPT !.raised = TRUE,
                              !.invoked = Append(acc.invoked, t)]
             ELSE ToolLoopNoTry(Tail(calls), Tail(env), now,
                     [results |-> Append(acc.results,
                                     ToolMessage(t.id, t.name, r.ret)),
                      invoked |-> Append(acc.invoked, t),
                      dispatches |-> IF r.dispatched
                                     THEN Append(acc.dispatches,
                                            [to |-> t.args.phone_number,
                                             body |-> t.args.message_body])
                                     ELSE acc.dispatches,
                      raised |-> FALSE])

\* the loop of tool_node over the requested calls, in order
RECURSIVE ToolLoop(_, _, _, _)
ToolLoop(calls, env, now, acc) ==
    IF calls = <<>>
    THEN acc
    ELSE LET t == Head(calls)
             r == Invoke(t, Head(env), now)
         IN  IF t.name \notin tool_map
             THEN ToolLoop(Tail(calls), Tail(env), now, acc)
             ELSE ToolLoop(Tail(calls), Tail(env), now,
                     [results |-> Append(acc.results,
                                     ToolMessage(t.id, t.name,
                                        IF r.raised
                                        THEN Text("Error: ", <<r.ret.head>>)
                                        ELSE r.ret)),
                      invoked |-> Append(acc.invoked, t),
                      dispatches |-> IF r.dispatched
                                     THEN Append(acc.dispatches,
                                            [to |-> t.args.phone_number,
                                             body |-> t.args.message_body])
                                     ELSE acc.dispatches,
                      raised |-> FALSE])

NoResults == [results |-> <<>>, invoked |-> <<>>, dispatches |-> <<>>,
              raised |-> FALSE]

tool_node_no_try(msgs, env, now) ==
    ToolLoopNoTry(Last(msgs).tool_calls, env, now, NoResults)

\* tool_node: the tool messages it returns, the invocations and provider
\* calls it made, and whether an exception left it
tool_node(msgs, env, now) ==
    ToolLoop(Last(msgs).tool_calls, env, now, NoResults)

----------------------------------------------------------------------------
(* Loop actions *)

\* run_daily_streak_check: agent_app.ainvoke({"messages": [HumanMessage]})
StartCheck ==
    /\ pc = "idle"
    /\ messages' = add_messages(<<>>, <<HumanMessage>>)
    /\ pc' = "reasoner"
    /\ UNCHANGED <<scriptVars, storeVars, raceVars, toolVars, reasonerInput, reasonCount,
                   actCount, nextCallId, invoked, logged>>

\* reasoner_node returns a message; the conditional edge routes on it
Reason ==
    /\ pc = "reasoner"
    /\ \E n \in 0..MaxCallsPerTurn :
          /\ nextCallId + n <= MaxToolCalls + 1
          /\ \E reqs \in [1..n -> Requests] :
                LET calls == [i \in 1..n |->
                                 [name |-> reqs[i].name, args |-> reqs[i].args,
                                  id |-> nextCallId + i - 1]]
                IN  /\ messages' = add_messages(messages, <<AIMessage(calls)>>)
                    /\ nextCallId' = nextCallId + n
    /\ reasonerInput' = messages
    /\ reasonCount' = reasonCount + 1
    /\ pc' = router(messages')
    /\ logged' = IF pc' = "END" THEN "agent response" ELSE logged
    /\ UNCHANGED <<scriptVars, storeVars, raceVars, toolVars, actCount, invoked>>

\* a failing reasoner call that is logged and made again
ReasonFailsRetries ==
    /\ pc = "reasoner"
    /\ pc' = "reasoner"
    /\ logged' = "error: reasoner"
    /\ UNCHANGED <<scriptVars, storeVars, raceVars, toolVars, messages,
                   reasonerInput, reasonCount, actCount, nextCallId, invoked>>

\* the reasoning function raises: ainvoke raises, the except clause logs
ReasonFails ==
    /\ pc = "reasoner"
    /\ reasonerInput' = messages
    /\ reasonCount' = reasonCount + 1
    /\ pc' = "FAILED"
    /\ logged' = "error: reasoner"
    /\ UNCHANGED <<scriptVars, storeVars, raceVars, toolVars, messages, actCount,
                   nextCallId, invoked>>

\* tool_node runs, then the edge tools -> reasoner
Act ==
    /\ pc = "tools"
    /\ \E env \in [1..Len(Last(messages).tool_calls) -> BOOLEAN], now \in Nows :
          LET r == tool_node(messages, env, now)
          IN  /\ invoked' = invoked \o r.invoked
              /\ providerCalls' = providerCalls \o r.dispatches
              /\ IF r.raised
                 THEN /\ pc' = "FAILED"
                      /\ logged' = "error: tool"
                      /\ UNCHANGED messages
                 ELSE /\ pc' = AfterTools
                      /\ messages' = add_messages(messages, r.results)
                      /\ logged' = IF pc' = "END" THEN "agent response"
                                   ELSE logged
    /\ actCount' = actCount + 1
    /\ UNCHANGED <<scriptVars, storeVars, raceVars, sid, token, lastCall, reasonerInput,
                   reasonCount, nextCallId>>

AgentModelInit ==
    /\ store \in ToolStores /\ lastOp = NoOp
    /\ RaceInit
    /\ sid \in {"unset", "set"} /\ token = "set"
    /\ providerCalls = <<>> /\ lastCall = NoCall
    /\ AgentInit /\ ScriptInit

AgentNext == StartCheck \/ Reason \/ ReasonFails \/ Act
AgentSpec == AgentModelInit /\ [][AgentNext]_vars

----------------------------------------------------------------------------
(* Claims about the tool-dispatch loop *)

IsPrefix(a, b) == Len(a) <= Len(b) /\ SubSeq(b, 1, Len(a)) = a

Registered(t) == t.name \in tool_map

Raises(t) == \E ok \in BOOLEAN, now \in Nows : Invoke(t, ok, now).raised

\* C1: a step of tool_node never ends the invocation: it goes back to the
\* reasoner with the history extended by one tool message for every
\* requested call whose name is registered, and the message of a call whose
\* invocation raised carries the call's id and the error text.
C1_ToolFailureStaysInAct ==
    [][pc = "tools" =>
        LET calls == Last(messages).tool_calls
            new == SubSeq(messages', Len(messages) + 1, Len(messages'))
        IN  /\ pc' = "reasoner"
            /\ logged' = logged
            /\ IsPrefix(messages, messages')
            /\ \A i \in 1..Len(calls) :
                  Registered(calls[i]) =>
                      \E k \in 1..Len(new) :
                          /\ new[k].type = "tool"
                          /\ new[k].tool_call_id = calls[i].id
                          /\ Raises(calls[i])
                                => new[k].content.head = "Error: "]_vars

\* a call raised, its error message is in the history, the next call of the
\* same turn was answered after it, and the reasoner runs next
C1_Witness ==
    /\ pc = "reasoner"
    /\ \E k \in 1..(Len(messages) - 1) :
          /\ messages[k].type = "tool"
          /\ messages[k].content.head = "Error: "
          /\ messages[k + 1].type = "tool"
          /\ messages[k + 1].content.head # "Error: "

\* C2: one invocation of the loop has ended once TurnBound reasoner steps
\* were taken, whatever the reasoning function answers.
C2_EndsWithinTurnBound ==
    reasonCount >= TurnBound => pc \in {"END", "FAILED"}

\* C3: when the first reasoner message carries no tool call, the invocation
\* has ended after one reasoner step, without a tools step or a tool
\* invocation, with the history <<human message, that message>>.
C3_FinalAnswerAtOnce ==
    (Len(messages) >= 2 /\ messages[2].tool_calls = <<>>)
    => /\ pc = "END"
       /\ reasonCount = 1 /\ actCount = 0 /\ invoked = <<>>
       /\ messages = <<HumanMessage, messages[2]>>
       /\ messages[2].type = "ai"

\* the first answer was final
C3_Witness ==
    /\ pc = "END" /\ Len(messages) = 2
    /\ messages[2].type = "ai" /\ messages[2].tool_calls = <<>>

\* C4: the steps of the loop are start -> reasoner; reasoner -> END exactly
\* when the message the reasoner returned carries no tool call and
\* reasoner -> tools exactly when it carries some; tools -> reasoner always;
\* nothing leaves END.  (A reasoner call that raises returns no message and
\* ends the invocation; it is no step of the loop.)
C4_OnlyTheseTransitions ==
    [][/\ pc = "idle" => pc' = "reasoner"
       /\ pc = "reasoner" =>
             \/ pc' = "FAILED" /\ messages' = messages
             \/ /\ messages' = Append(messages, Last(messages'))
                /\ Last(messages').type = "ai"
                /\ pc' \in {"END", "tools"}
                /\ pc' = "END" <=> Last(messages').tool_calls = <<>>
                /\ pc' = "tools" <=> Len(Last(messages').tool_calls) >= 1
       /\ pc = "tools" => pc' = "reasoner"
       /\ pc = "END" => pc' = "END" /\ ~ENABLED AgentNext]_vars

\* the loop went reasoner -> tools -> reasoner -> END
C4_Witness == pc = "END" /\ actCount >= 1 /\ reasonCount = actCount + 1

\* C5: every step leaves the messages it found in place and in order, adding
\* only at the end, and each call of the reasoning function is handed the
\* whole history of that moment.
C5_AppendOnlyHistory ==
    [][/\ IsPrefix(messages, messages')
       /\ reasonCount' # reasonCount => reasonerInput' = messages]_vars

\* the second reasoner call saw the tool results of the step before it
C5_Witness ==
    /\ reasonCount >= 2
    /\ Last(reasonerInput).type = "tool"
    /\ IsPrefix(reasonerInput, messages)
    /\ Len(messages) > Len(reasonerInput)

----------------------------------------------------------------------------
(* find_regular_absentees: the regular players of a weekday who have no
   booking on the target day *)

MaxDetectStore == 3     \* records in the collection the detector reads

TargetDays == {8, 15}           \* target_day arguments, one week apart
LookbackWeeks == {0, 1, 2}      \* lookback_weeks arguments
MinSessions == {0, 1, 2}        \* min_sessions arguments

BookingAt(p, d, tod, c, reg) ==
    [Doc(p, d, c) EXCEPT !.date = StartOfDay(d) + tod,
                         !.is_regular_slot = reg]

\* Bookings on the target days' weekday and on another one, at the start
\* of the day and later in it, in and out of the regular slot.
DetectDocs ==
    {BookingAt("p1", 1, 0, "Court A", TRUE),
     BookingAt("p1", 8, 0, "Court A", TRUE),
     BookingAt("p1", 8, DayTicks - 1, "Court B", FALSE),
     BookingAt("p1", 14, 0, "Court A", TRUE),
     BookingAt("p1", 15, DayTicks - 1, "Court B", FALSE),
     BookingAt("p1", 16, 0, "Court A", TRUE),
     BookingAt("p2", 8, 0, "Court A", TRUE),
     BookingAt("p2", 15, 0, "Court A", TRUE)}

\* date.isoweekday(): Monday is 1; day 0 is a Monday, as in DayName
isoweekday(d) == (d % 7) + 1

\* $isoDayOfWeek of a stored date
isoDayOfWeek(t) == isoweekday(t \div DayTicks)

\* the weekday stage letting every weekday through
WeekdayMatchAny(b, weekday) == TRUE

\* {"$addFields": weekday}, {"$match": {"weekday": weekday}}
WeekdayMatch(b, weekday) == isoDayOfWeek(b.date) = weekday

\* the first $match stage and the weekday stage
PipelineMatch(st, recent_start, day_start, weekday) ==
    LET keep(b) == /\ b.date >= recent_start /\ b.date < day_start
                   /\ b.is_regular_slot = TRUE
                   /\ WeekdayMatch(b, weekday)
    IN  SelectSeq(st, keep)

\* the $group stage: one document per user_id, $first of the profile
\* fields and the number of documents of the group
Group(matched) ==
    {LET of_user(b) == b.user_id = u
         docs == SelectSeq(matched, of_user)
     IN  [_id |-> u, user_name |-> docs[1].user_name,
          whatsapp_number |-> docs[1].whatsapp_number,
          court_name |-> docs[1].court_name, count |-> Len(docs)]
     : u \in {matched[i].user_id : i \in 1..Len(matched)}}

aggregate(st, recent_start, day_start, weekday, min_sessions) ==
    {g \in Group(PipelineMatch(st, recent_start, day_start, weekday)) :
        g.count >= min_sessions}

\* find_one matching only a date equal to the start of the day
find_one_start_of_day(st, user_id, day_start, day_end) ==
    \E i \in 1..Len(st) : st[i].user_id = user_id /\ st[i].date = day_start

\* find_one({"user_id", "date": {"$gte": day_start, "$lt": day_end}})
find_one(st, user_id, day_start, day_end) ==
    \E i \in 1..Len(st) :
        /\ st[i].user_id = user_id
        /\ st[i].date >= day_start /\ st[i].date < day_end

find_regular_absentees(st, target_day, lookback_weeks, min_sessions) ==
    LET weekday == isoweekday(target_day)
        day_start == StartOfDay(target_day)
        day_end == day_start + DayTicks
        recent_start == day_start - lookback_weeks * 7 * DayTicks
        regulars == aggregate(st, recent_start, day_start, weekday,
                              min_sessions)
    IN  [outcome |-> "returned", regulars |-> regulars,
         absentees |-> {player \in regulars :
                           ~find_one(st, player._id, day_start, day_end)}]

FindRegularAbsentees ==
    \E target_day \in TargetDays, lookback_weeks \in LookbackWeeks,
       min_sessions \in MinSessions :
        LET r == find_regular_absentees(store, target_day, lookback_weeks,
                                        min_sessions)
        IN  /\ detection' = [called |-> TRUE, target_day |-> target_day,
                             lookback_weeks |-> lookback_weeks,
                             min_sessions |-> min_sessions,
                             outcome |-> r.outcome, regulars |-> r.regulars,
                             absentees |-> r.absentees]
            /\ UNCHANGED <<seedRun, runs, storeVars, raceVars, toolVars,
                           agentVars>>

DetectModelInit ==
    /\ store \in SeqsUpTo(DetectDocs, MaxDetectStore) /\ lastOp = NoOp
    /\ RaceInit /\ ToolInit /\ AgentInit /\ ScriptInit

DetectNext == FindRegularAbsentees

DetectSpec == DetectModelInit /\ [][DetectNext]_vars

\* the calendar day of a stored booking
BookingDay(b) == b.date \div DayTicks

Ids(players) == {player._id : player \in players}

\* C11: a player of the regular set is reported absent if and only if the
\* store holds no booking by that player on the target calendar day, whatever
\* that booking's court, time of day or regular-slot flag.
C11_AbsentIffNoBookingOnTargetDay ==
    detection.called =>
        /\ detection.absentees \subseteq detection.regulars
        /\ \A player \in detection.regulars :
              player \in detection.absentees <=>
                  ~\E i \in 1..Len(store) :
                      /\ store[i].user_id = player._id
                      /\ BookingDay(store[i]) = detection.target_day

\* A call where one regular is absent and another is present only through a
\* booking later in the day, outside the regular slot.
C11_Witness ==
    /\ detection.called
    /\ \E a \in detection.absentees, r \in detection.regulars :
          /\ r \notin detection.absentees
          /\ \A i \in 1..Len(store) :
                (store[i].user_id = r._id
                    /\ BookingDay(store[i]) = detection.target_day)
                => (store[i].date # StartOfDay(detection.target_day)
                    /\ ~store[i].is_regular_slot)

\* the number of a player's regular-slot bookings of the lookback window on
\* the target day's weekday
SessionCount(p) ==
    Cardinality({i \in 1..Len(store) :
        /\ store[i].user_id = p
        /\ store[i].is_regular_slot
        /\ BookingDay(store[i]) >=
               detection.target_day - 7 * detection.lookback_weeks
        /\ BookingDay(store[i]) < detection.target_day
        /\ BookingDay(store[i]) % 7 = detection.target_day % 7})

\* C12: for positive arguments a player is in the regular set iff the number
\* of their regular-slot bookings in [target - lookback_weeks weeks, target)
\* on the target's weekday is at least min_sessions; a player whose bookings
\* all fall on other weekdays is never in the regular set.
C12_RegularIffEnoughSessionsOnWeekday ==
    detection.called =>
        /\ (detection.lookback_weeks > 0 /\ detection.min_sessions > 0) =>
              Ids(detection.regulars) =
                  {p \in Players : SessionCount(p) >= detection.min_sessions}
        /\ \A p \in Players :
              (\A i \in 1..Len(store) :
                  store[i].user_id = p =>
                      BookingDay(store[i]) % 7 # detection.target_day % 7)
              => p \notin Ids(detection.regulars)

\* A call with positive arguments where one player is regular and another has
\* at least min_sessions regular-slot bookings in the window, all of them on
\* another weekday.
C12_Witness ==
    /\ detection.called
    /\ detection.lookback_weeks > 0 /\ detection.min_sessions > 0
    /\ detection.regulars # {}
    /\ \E p \in Players \ Ids(detection.regulars) :
          /\ \A i \in 1..Len(store) :
                store[i].user_id = p =>
                    BookingDay(store[i]) % 7 # detection.target_day % 7
          /\ Cardinality({i \in 1..Len(store) :
                /\ store[i].user_id = p /\ store[i].is_regular_slot
                /\ BookingDay(store[i]) < detection.target_day
                /\ BookingDay(store[i]) >=
                       detection.target_day - 7 * detection.lookback_weeks})
                >= detection.min_sessions

\* C13: a call with lookback_weeks <= 0 or min_sessions <= 0 fails with an
\* error and returns no set of players.
C13_NonPositiveArgumentsFail ==
    (detection.called
        /\ (detection.lookback_weeks <= 0 \/ detection.min_sessions <= 0))
    => detection.outcome = "error"

----------------------------------------------------------------------------
(* The seed script: legacy file import, mock generator, purge, dry run *)


SeedNows == {9 * DayTicks + 1}      \* datetime.now(utc) of a run
MockWeeks == {0, 1, 2}              \* --mock-weeks
SkipLatest == {{}, {"p2"}}          \* --skip-latest
PurgeUser == {{}, {"p1"}}           \* --purge-user

PLAYER_PROFILES ==
    <<[user_id |-> "p1", court_name |-> "Court A", weekday |-> 0],
      [user_id |-> "p2", court_name |-> "Court B", weekday |-> 2]>>

LegacyRecord(p, has_date, t, c) ==
    [user_id |-> p, has_date |-> has_date, booking_date |-> t,
     court_name |-> c]

\* --file: no file, a record booked at 00:00 UTC, a record booked later in
\* the day, and a record without a usable date followed by a later one
Files ==
    {<<>>,
     <<LegacyRecord("p1", TRUE, StartOfDay(1), "Court A")>>,
     <<LegacyRecord("p1", TRUE, StartOfDay(1) + DayTicks - 1, "Court A")>>,
     <<LegacyRecord("p2", FALSE, 0, "Court A"),
       LegacyRecord("p2", TRUE, StartOfDay(1) + DayTicks - 1, "Court B")>>}

\* _ensure_datetime raises for a missing date; otherwise the instant is kept
\* as it is, converted to UTC
_transform_legacy(record) ==
    [Doc(record.user_id, 0, record.court_name)
        EXCEPT !.date = record.booking_date]

\* records whose transformation raises are skipped
_read_json_records(file) ==
    LET usable(record) == record.has_date
        candidates == SelectSeq(file, usable)
    IN  [i \in 1..Len(candidates) |-> _transform_legacy(candidates[i])]

_generate_mock_records(weeks, skip_latest, now) ==
    LET today == now \div DayTicks
        monday == today - (today % 7)
        n == IF weeks > 0 THEN weeks ELSE 0
        pairs == [k \in 1..(Len(PLAYER_PROFILES) * n) |->
                     [profile |-> PLAYER_PROFILES[((k - 1) \div n) + 1],
                      offset |-> (k - 1) % n]]
        kept(x) == ~(x.profile.user_id \in skip_latest /\ x.offset = 0)
        made == SelectSeq(pairs, kept)
    IN  [i \in 1..Len(made) |->
            Doc(made[i].profile.user_id,
                monday - 7 * made[i].offset + made[i].profile.weekday,
                made[i].profile.court_name)]

\* main(): the payload is prepared, --purge-user is carried out, and only
\* then an empty payload or --dry-run ends the run before the upsert
main(st, file, mock_weeks, skip_latest, purge_user, dry_run, now) ==
    LET from_file == _read_json_records(file)
        payload == IF mock_weeks > 0
                   THEN from_file \o _generate_mock_records(mock_weeks,
                                                            skip_latest, now)
                   ELSE from_file
        purged == IF purge_user # {}
                  THEN _purge_users(st, purge_user).store
                  ELSE st
    IN  [payload |-> payload,
         store |-> IF payload = <<>> \/ dry_run
                   THEN purged
                   ELSE _upsert_records(purged, payload).store]

SeedMain ==
    /\ \E file \in Files,
          mock_weeks \in MockWeeks, skip_latest \in SkipLatest,
          purge_user \in PurgeUser, dry_run \in BOOLEAN, now \in SeedNows :
          LET r == main(store, file, mock_weeks, skip_latest, purge_user,
                        dry_run, now)
          IN  /\ Len(r.store) <= MaxStore
              /\ store' = r.store
              /\ seedRun' = [ran |-> TRUE, dry_run |-> dry_run,
                             changed |-> r.store # store]
              /\ lastOp' = [NoOp EXCEPT !.op = "seed"]
    /\ UNCHANGED <<detection, runs, raceVars, toolVars, agentVars>>

SeedModelInit == StoreModelInit

SeedNext == AddBooking \/ SeedMain

SeedSpec == SeedModelInit /\ [][SeedNext]_vars

\* C14: every stored booking has its date at the start of a day (00:00 UTC),
\* whichever write path stored it.
C14_StoredDatesAtStartOfDay ==
    \A i \in 1..Len(store) : store[i].date % DayTicks = 0

\* C15: a run of the seed script with --dry-run leaves the store as it found
\* it, whatever the other options.
C15_DryRunLeavesStoreUnchanged ==
    (seedRun.ran /\ seedRun.dry_run) => ~seedRun.changed

----------------------------------------------------------------------------
(* Further claims about the tool-dispatch loop *)

InRegistry(t) == t.name \in {"get_booking_history", "send_whatsapp_reminder"}

\* the position of the first reasoner message after position k, or one past
\* the end of the history
NextReasonerMessage(k) ==
    LET later == {j \in (k + 1)..Len(messages) : messages[j].type = "ai"}
    IN  IF later = {} THEN Len(messages) + 1
        ELSE CHOOSE j \in later : \A i \in later : j <= i

\* the messages between the reasoner message at k and the next one
ResultsAfter(k) == SubSeq(messages, k + 1, NextReasonerMessage(k) - 1)

\* the tools step for the reasoner message at k has run
Answered(k) == k < Len(messages) \/ pc # "tools"

\* C16: once the tools step has run for a reasoner message, the messages that
\* follow it are exactly one tool message per requested call whose name is in
\* the registry, in request order, each carrying that call's id and name; and
\* every tool message of the history carries an id requested by the nearest
\* reasoner message before it.
C16_OneTaggedResultPerRegisteredCall ==
    /\ \A k \in 1..Len(messages) :
          (messages[k].type = "ai" /\ Answered(k)) =>
              LET expected == SelectSeq(messages[k].tool_calls, InRegistry)
                  got == ResultsAfter(k)
              IN  /\ Len(got) = Len(expected)
                  /\ \A i \in 1..Len(got) :
                        /\ got[i].type = "tool"
                        /\ got[i].tool_call_id = expected[i].id
                        /\ got[i].name = expected[i].name
    /\ \A j \in 1..Len(messages) :
          messages[j].type = "tool" =>
              \E k \in 1..(j - 1) :
                  /\ messages[k].type = "ai"
                  /\ NextReasonerMessage(k) > j
                  /\ \E c \in 1..Len(messages[k].tool_calls) :
                        messages[k].tool_calls[c].id = messages[j].tool_call_id

\* a reasoner message with two registered calls has been answered by two
\* tool messages
C16_Witness ==
    \E k \in 1..Len(messages) :
        /\ messages[k].type = "ai"
        /\ Len(messages[k].tool_calls) = 2
        /\ Len(SelectSeq(messages[k].tool_calls, InRegistry)) = 2
        /\ Len(ResultsAfter(k)) = 2
        /\ messages[k].tool_calls[1].name # messages[k].tool_calls[2].name

\* C17: the tools step invokes and answers only the calls whose name is in
\* the registry: a call with any other name gets no invocation and no tool
\* message, the registered calls of the same turn are answered as usual, and
\* the loop goes back to the reasoner; when no call of the turn is registered
\* the history is left as it was.
C17_UnknownToolDropped ==
    [][pc = "tools" =>
          LET calls == Last(messages).tool_calls
              known == SelectSeq(calls, InRegistry)
              added == SubSeq(messages', Len(messages) + 1, Len(messages'))
          IN  /\ pc' = "reasoner"
              /\ IsPrefix(messages, messages')
              /\ invoked' = invoked \o known
              /\ Len(added) = Len(known)
              /\ \A i \in 1..Len(added) : added[i].tool_call_id = known[i].id
              /\ \A c \in 1..Len(calls) :
                    ~InRegistry(calls[c]) =>
                        \A i \in 1..Len(added) :
                            added[i].tool_call_id # calls[c].id
              /\ known = <<>> => messages' = messages]_vars

\* a turn mixing an unregistered and a registered call was answered by one
\* tool message, and a later turn with no registered call added nothing
C17_Witness ==
    /\ pc = "reasoner"
    /\ Last(messages).type = "ai" /\ Last(messages).tool_calls # <<>>
    /\ \E k \in 1..(Len(messages) - 1) :
          /\ messages[k].type = "ai"
          /\ \E c \in 1..Len(messages[k].tool_calls) :
                ~InRegistry(messages[k].tool_calls[c])
          /\ Len(ResultsAfter(k)) = 1

\* C18: when the loop has ended normally the last message of the history is a
\* reasoner message without tool calls, and the run has logged it as the
\* agent's response.
C18_EndsOnFinalReasonerMessage ==
    pc = "END" =>
        /\ Last(messages).type = "ai"
        /\ Last(messages).tool_calls = <<>>
        /\ logged = "agent response"

\* the loop has ended after a turn that used tools
C18_Witness ==
    /\ pc = "END" /\ logged = "agent response"
    /\ \E j \in 1..Len(messages) : messages[j].type = "tool"

\* C19: a failure of the reasoning function is logged by the step that ends
\* the invocation: that step adds no message, no tool invocation and no
\* provider call, and nothing happens after the invocation has failed.
C19_ReasonerFailureAborts ==
    [][/\ (logged' = "error: reasoner" /\ logged # "error: reasoner") =>
              /\ pc = "reasoner" /\ pc' = "FAILED"
              /\ messages' = messages /\ invoked' = invoked
              /\ providerCalls' = providerCalls
       /\ pc # "FAILED"]_vars

\* the reasoner failed on its second call, after a turn in which a tool ran
C19_Witness ==
    /\ pc = "FAILED" /\ logged = "error: reasoner"
    /\ reasonCount >= 2 /\ invoked # <<>>
    /\ ~ENABLED AgentNext

----------------------------------------------------------------------------
(* A further claim about the action tools *)

\* C20: a call of get_booking_history or send_whatsapp_reminder ends with a
\* text returned and no exception, whatever the argument and whether the
\* store or the provider answers or fails; one call of
\* send_whatsapp_reminder calls the provider at most once.
C20_ToolsReturnTextAndDispatchOnce ==
    lastCall.tool # "none" =>
        /\ ~lastCall.raised
        /\ lastCall.ret.head # ""
        /\ lastCall.attempts <= 1
        /\ lastCall.attempts = (IF lastCall.dispatched THEN 1 ELSE 0)

\* the provider refused the message: one attempt, the failure text returned
C20_Witness ==
    /\ lastCall.tool = "send_whatsapp_reminder"
    /\ lastCall.attempts = 1
    /\ lastCall.ret.head = "Failed to send message: "
    /\ ~lastCall.raised

----------------------------------------------------------------------------
(* Two invocations of run_daily_streak_check at once: the cron job added at
   startup and the job that POST /admin/trigger-check adds.  Both are
   coroutines of one AsyncIOScheduler, each with its own graph state; they
   share the collection, the credentials and the provider.  A step is one
   node of the graph. *)

MaxRunCalls == 1        \* tool calls one of the two invocations may request

Runs == {1, 2}          \* 1: the scheduled job, 2: the manual trigger

\* what the reasoning function asks for here: calls that fit the schemas
RunRequests == {q \in Requests : q.args.valid}

\* agent_app.ainvoke({"messages": [HumanMessage]}) of invocation r
StartRun(r) ==
    /\ runs[r].pc = "idle"
    /\ runs' = [runs EXCEPT ![r].messages = add_messages(<<>>, <<HumanMessage>>),
                            ![r].pc = "reasoner"]
    /\ UNCHANGED <<detection, seedRun, storeVars, raceVars, toolVars,
                   agentVars>>

\* scheduler.add_job(run_daily_streak_check, 'cron', hour=22, minute=0)
ScheduledCheck == StartRun(1)

\* POST /admin/trigger-check: a job of its own, run at once
manual_trigger == StartRun(2)

\* reasoner_node of invocation r, then the conditional edge
RunReason(r) ==
    /\ runs[r].pc = "reasoner"
    /\ \E n \in 0..1 :
          /\ runs[r].nextCallId + n <= MaxRunCalls + 1
          /\ \E reqs \in [1..n -> RunRequests] :
                LET calls == [i \in 1..n |->
                                 [name |-> reqs[i].name, args |-> reqs[i].args,
                                  id |-> runs[r].nextCallId + i - 1]]
                    msgs == add_messages(runs[r].messages, <<AIMessage(calls)>>)
                IN  runs' = [runs EXCEPT ![r].messages = msgs,
                                         ![r].nextCallId = @ + n,
                                         ![r].pc = router(msgs)]
    /\ UNCHANGED <<detection, seedRun, storeVars, raceVars, toolVars,
                   agentVars>>

\* the reasoning function of invocation r raises; the failure is logged
RunReasonFails(r) ==
    /\ runs[r].pc = "reasoner"
    /\ runs' = [runs EXCEPT ![r].pc = "FAILED"]
    /\ UNCHANGED <<detection, seedRun, storeVars, raceVars, toolVars,
                   agentVars>>

\* tool_node of invocation r, then the edge tools -> reasoner; a provider
\* call is recorded with the invocation that made it and the day it was made
RunAct(r) ==
    /\ runs[r].pc = "tools"
    /\ \E env \in [1..Len(Last(runs[r].messages).tool_calls) -> BOOLEAN],
          now \in Nows :
          LET res == tool_node(runs[r].messages, env, now)
          IN  /\ runs' = [runs EXCEPT
                            ![r].messages = add_messages(@, res.results),
                            ![r].pc = AfterTools]
              /\ providerCalls' =
                    providerCalls \o
                        [i \in 1..Len(res.dispatches) |->
                            [to |-> res.dispatches[i].to,
                             body |-> res.dispatches[i].body,
                             by |-> r, day |-> DateString(now)]]
    /\ UNCHANGED <<detection, seedRun, storeVars, raceVars, sid, token,
                   lastCall, agentVars>>

ConcurrentModelInit == AgentModelInit

ConcurrentNext ==
    \/ ScheduledCheck
    \/ manual_trigger
    \/ \E r \in Runs : RunReason(r)
    \/ \E r \in Runs : RunReasonFails(r)
    \/ \E r \in Runs : RunAct(r)

ConcurrentSpec == ConcurrentModelInit /\ [][ConcurrentNext]_vars

\* the provider calls invocation r has made
DispatchesBy(r) ==
    Cardinality({i \in 1..Len(providerCalls) : providerCalls[i].by = r})

\* the send_whatsapp_reminder calls invocation r has carried out
SendsBy(r) ==
    Cardinality({j \in 1..Len(runs[r].messages) :
        /\ runs[r].messages[j].type = "tool"
        /\ runs[r].messages[j].name = "send_whatsapp_reminder"})

\* C21: nothing keeps a reminder from being sent again and nothing makes one
\* invocation wait for the other: with the credentials configured every
\* send_whatsapp_reminder call an invocation carries out is a provider call,
\* whatever the provider was already called for, and an invocation that has
\* not started can start whatever the other one is doing.  (The doubled
\* reminder itself is the state C21_Witness describes.)
C21_NothingPreventsSecondReminder ==
    /\ \A r \in Runs :
          DispatchesBy(r) =
              (IF Falsy(sid) \/ Falsy(token) THEN 0 ELSE SendsBy(r))
    /\ \A r \in Runs : runs[r].pc = "idle" => ENABLED StartRun(r)

\* both invocations are under way, and each has called the provider for the
\* same number on the same day
C21_Witness ==
    /\ runs[1].pc = "reasoner" /\ runs[2].pc = "reasoner"
    /\ \E i, j \in 1..Len(providerCalls) :
          /\ providerCalls[i].by = 1 /\ providerCalls[j].by = 2
          /\ providerCalls[i].to = providerCalls[j].to
          /\ providerCalls[i].day = providerCalls[j].day

====
